---- MODULE Spec2Model ----
(***************************************************************************)
(* Product Review Sentiment Scraper.                                       *)
(*                                                                         *)
(* Part I models the dashboard page, src/frontend/app/page.js: the React   *)
(* state of HomePage, the submit handler handleScrape with its two awaits  *)
(* (fetch, response.json()), the derived sentimentCounts and the rendered  *)
(* sheet link and review table.                                            *)
(*                                                                         *)
(* Part II models one invocation of the backend pipeline (resolver,        *)
(* metadata fetcher, review source client, scorer, persistence sink,       *)
(* orchestrator).  The backend's code is not among the sources at hand, so *)
(* Part II follows the design document, sections 4.1 to 4.7 and 7.         *)
(***************************************************************************)
EXTENDS Integers, Sequences, FiniteSets

\* ------------------------------------------------------------------ bounds

\* Longest text typed into the URL input.
MaxUrlLen == 1
\* Longest "data" array of a backend response.
MaxReviews == 2
\* Most handleScrape invocations awaiting the backend at one time.
MaxInFlight == 2
\* Most raw reviews the upstream returns in one page.
MaxPageSize == 2

\* ------------------------------------------------------- values and inputs

SeqsUpTo(S, n) == UNION {[1..k -> S] : k \in 0..n}

\* Characters of the URL input: a whitespace character and a non-whitespace one.
UrlChars == {" ", "a"}
Urls == SeqsUpTo(UrlChars, MaxUrlLen)

\* A JSON member that is absent (undefined) or null.
Undefined == "undefined"
\* useState(null) of error.
NoError == "null"
\* The values of a string member that JavaScript treats as false in `x || y`.
Falsy == {Undefined, ""}

\* sentiment_score is kept in units of 1/10000; NoScore stands for a review
\* that carries no sentiment_score.
NoScore == -100000

Labels == {"Positive", "Negative", "Neutral"}

\* The reviews a response may carry.  Three follow the backend's Review shape,
\* one for each label; the fourth has a label outside the three and no score,
\* which the page accepts as it validates nothing of the JSON it receives.
ReviewPool ==
  { [product_name |-> "P", review_text |-> "great", rating |-> 5,
     sentiment_label |-> "Positive", sentiment_score |-> 5000],
    [product_name |-> "P", review_text |-> "broke", rating |-> 1,
     sentiment_label |-> "Negative", sentiment_score |-> -7006],
    [product_name |-> "P", review_text |-> "ok", rating |-> 3,
     sentiment_label |-> "Neutral", sentiment_score |-> 0],
    [product_name |-> "P", review_text |-> "meh", rating |-> 0,
     sentiment_label |-> "Mixed", sentiment_score |-> NoScore] }

ReviewSeqs == SeqsUpTo(ReviewPool, MaxReviews)

SheetUrls == {Undefined, "https://sheet/A", "https://sheet/B"}
Details == {Undefined, "Invalid Daraz URL"}

\* HTTP statuses the backend answers with; response.ok is a 2xx status.
Statuses == {200, 500}
ResponseOk(status) == status >= 200 /\ status <= 299

\* What response.json() resolves to: null, or an object.  has_data = FALSE is
\* an object without a (non-null) "data" member.
OkBodies ==
  { [kind |-> "object", has_data |-> TRUE, data |-> d, sheet_url |-> s, detail |-> Undefined] :
      d \in ReviewSeqs, s \in SheetUrls }
  \cup
  { [kind |-> "object", has_data |-> FALSE, data |-> <<>>, sheet_url |-> s, detail |-> Undefined] :
      s \in SheetUrls }
ErrorBodies ==
  { [kind |-> "object", has_data |-> FALSE, data |-> <<>>, sheet_url |-> Undefined, detail |-> t] :
      t \in Details }
NullBody == [kind |-> "null", has_data |-> FALSE, data |-> <<>>, sheet_url |-> Undefined,
             detail |-> Undefined]
BodiesFor(status) ==
  IF ResponseOk(status) THEN OkBodies \cup {NullBody} ELSE ErrorBodies \cup {NullBody}

\* Messages of the errors the handler may catch.
NetworkMessages == {"Failed to fetch", ""}
JsonSyntaxMessage == "Unexpected token < in JSON"
NullPropertyMessage == "Cannot read properties of null"
PleaseEnterMessage == "Please enter a product URL."
NoReviewsMessage ==
  "No reviews were returned. The product might have no reviews, or scraper selectors need an update."
UnexpectedMessage == "An unexpected error occurred."
HttpErrorMessage(status) ==
  IF status = 500 THEN "HTTP error! Status: 500" ELSE "HTTP error! Status: 200"

\* ------------------------------------------------------------------- state

VARIABLES
  productUrl,   \* useState(''): the text of the URL input
  reviews,      \* useState([])
  isLoading,    \* useState(false)
  error,        \* useState(null)
  sheetUrl,     \* useState('')
  inflight,     \* handleScrape invocations suspended at an await:
                \*   .fetch: how many await fetch(...),
                \*   .json[s]: how many got status s and await response.json()
  lastOp        \* history: how the last run of handler code that set state
                \* ended (.op), and the status and decoded body it handled

\* One invocation of the backend pipeline.
VARIABLES
  reference,    \* the ProductReference of the invocation
  stage,        \* the orchestrator's state
  productId,    \* the resolved ProductId ("" before resolution)
  productName,  \* ProductMetadata.name ("" before the metadata step)
  page,         \* the page cursor of the review source client
  retried,      \* the call for the current page has been retried
  pageCalls,    \* pages requested from the upstream so far
  attempts,     \* calls sent to the upstream so far, retries included
  moreSignalled, \* the continuation signal of the last page returned
  fetched,      \* normalized reviews retrieved so far
  scored,       \* the enriched Review records
  sheet,        \* the rows of the external spreadsheet
  failedAt,     \* the row of this batch whose append failed (0: none)
  warnings,     \* non-fatal errors recorded
  outcome       \* what the invocation returned

pageVars == <<productUrl, reviews, isLoading, error, sheetUrl, inflight, lastOp>>
pipelineVars == <<reference, stage, productId, productName, page, retried, pageCalls,
                  attempts, moreSignalled, fetched, scored, sheet, failedAt, warnings, outcome>>
vars == <<pageVars, pipelineVars>>

InFlightCount == inflight.fetch + inflight.json[200] + inflight.json[500]

\* ------------------------------------------------------------ pure helpers

\* x || y on strings.
OrElse(x, y) == IF x \in Falsy THEN y ELSE x

IsWhitespace(c) == c = " "

RECURSIVE TrimStart(_)
TrimStart(s) ==
  IF s # <<>> /\ IsWhitespace(Head(s)) THEN TrimStart(Tail(s)) ELSE s

RECURSIVE TrimEnd(_)
TrimEnd(s) ==
  IF s # <<>> /\ IsWhitespace(s[Len(s)]) THEN TrimEnd(SubSeq(s, 1, Len(s) - 1)) ELSE s

\* String.prototype.trim
Trim(s) == TrimEnd(TrimStart(s))

\* A reducer that stores 1 instead of adding 1 to the count so far.
CountStepOverwrite(acc, review) ==
  [k \in DOMAIN acc \cup {review.sentiment_label} |->
     IF k = review.sentiment_label THEN 1 ELSE acc[k]]

\* The reducer of sentimentCounts: acc[label] = (acc[label] || 0) + 1.
CountStep(acc, review) ==
  LET label == review.sentiment_label
      old == IF label \in DOMAIN acc THEN acc[label] ELSE 0
  IN  [k \in DOMAIN acc \cup {label} |-> IF k = label THEN old + 1 ELSE acc[k]]

ZeroCounts == [k \in Labels |-> 0]

RECURSIVE Reduce(_, _)
Reduce(acc, rs) ==
  IF rs = <<>> THEN acc ELSE Reduce(CountStep(acc, Head(rs)), Tail(rs))

SentimentCountsOf(rs) ==
  IF Len(rs) = 0 THEN ZeroCounts ELSE Reduce(ZeroCounts, rs)

\* useMemo(..., [reviews])
sentimentCounts == SentimentCountsOf(reviews)

totalReviews == Len(reviews)

\* ------------------------------------------------------------ what is shown

\* Number.prototype.toFixed(3) of a score kept in units of 1/10000: rounded to
\* thousandths, half away from zero.
ToFixed3(score) ==
  IF score >= 0 THEN (score + 5) \div 10 ELSE -((-score + 5) \div 10)

\* review.sentiment_score?.toFixed(3): an empty cell when there is no score.
ScoreCell(review) ==
  IF review.sentiment_score = NoScore
    THEN [shown |-> FALSE, thousandths |-> 0]
    ELSE [shown |-> TRUE, thousandths |-> ToFixed3(review.sentiment_score)]

\* One <tr> of the table.
TableRow(review) ==
  [product_name |-> review.product_name,
   review_text |-> review.review_text,
   rating |-> review.rating,
   sentiment_label |-> review.sentiment_label,
   score_cell |-> ScoreCell(review)]

\* reviews.length > 0 && !isLoading
TableShown == Len(reviews) > 0 /\ ~isLoading

\* reviews.map((review, index) => <tr key={index}>...)
TableRows ==
  IF TableShown THEN [i \in 1..Len(reviews) |-> TableRow(reviews[i])] ELSE <<>>

\* sheetUrl && !isLoading
SheetLinkShown == sheetUrl # "" /\ ~isLoading

\* <a href={sheetUrl}>
SheetLinkHref == sheetUrl

\* ----------------------------------------------------------------- actions

\* History values: no response was handled by the last run of handler code,
\* or the response of that status with that decoded body was.
NoBody == [kind |-> "none", has_data |-> FALSE, data |-> <<>>, sheet_url |-> Undefined,
           detail |-> Undefined]
NoResponse == [op |-> "none", status |-> 0, body |-> NoBody]
Ended(op) == [NoResponse EXCEPT !.op = op]
Handled(op, status, result) == [op |-> op, status |-> status, body |-> result]

PageInit ==
  /\ productUrl = <<>>
  /\ reviews = <<>>
  /\ isLoading = FALSE
  /\ error = NoError
  /\ sheetUrl = ""
  /\ inflight = [fetch |-> 0, json |-> [s \in Statuses |-> 0]]
  /\ lastOp = NoResponse

\* onChange={(e) => setProductUrl(e.target.value)}
setProductUrl(value) ==
  /\ productUrl' = value
  /\ UNCHANGED <<reviews, isLoading, error, sheetUrl, inflight, lastOp, pipelineVars>>

\* The blank check without the trim.
IsBlankUntrimmed(url) == url = <<>>

\* !productUrl.trim()
IsBlank(url) == Trim(url) = <<>>

\* handleScrape up to its first await: the blank check, the four resets and
\* the call of fetch.
handleScrape ==
  IF IsBlank(productUrl)
    THEN /\ error' = PleaseEnterMessage
         /\ lastOp' = Ended("blank")
         /\ UNCHANGED <<productUrl, reviews, isLoading, sheetUrl, inflight, pipelineVars>>
    ELSE /\ InFlightCount < MaxInFlight
         /\ isLoading' = TRUE
         /\ error' = NoError
         /\ reviews' = <<>>
         /\ sheetUrl' = ""
         /\ inflight' = [inflight EXCEPT !.fetch = @ + 1]
         /\ lastOp' = Ended("started")
         /\ UNCHANGED <<productUrl, pipelineVars>>

\* The submit button, which is disabled while isLoading; the input is
\* "required", so the browser submits no empty value through it.
ClickScrape ==
  /\ ~isLoading
  /\ productUrl # <<>>
  /\ handleScrape

\* A submit event delivered to the form's onSubmit (dispatched by a script or
\* a test harness): neither the button's disabled attribute nor the input's
\* validation stands in its way, and handleScrape itself checks only the URL.
SubmitForm ==
  /\ handleScrape

\* A catch block after which no finally block runs.
CatchErrorNoFinally(message) ==
  /\ error' = OrElse(message, UnexpectedMessage)
  /\ reviews' = <<>>
  /\ UNCHANGED <<productUrl, isLoading, sheetUrl, pipelineVars>>

\* catch (e) { setError(e.message || "An unexpected error occurred.");
\*             setReviews([]); } finally { setIsLoading(false); }
CatchError(message) ==
  /\ error' = OrElse(message, UnexpectedMessage)
  /\ reviews' = <<>>
  /\ isLoading' = FALSE
  /\ UNCHANGED <<productUrl, sheetUrl, pipelineVars>>

\* await fetch(...) rejects: the backend is unreachable.
FetchRejects(message) ==
  /\ inflight.fetch > 0
  /\ inflight' = [inflight EXCEPT !.fetch = @ - 1]
  /\ CatchError(message)
  /\ lastOp' = Ended("failed")

\* await fetch(...) resolves with a response of some status; the handler goes
\* on to await response.json().
FetchResolves(status) ==
  /\ inflight.fetch > 0
  /\ inflight' = [inflight EXCEPT !.fetch = @ - 1, !.json[status] = @ + 1]
  /\ UNCHANGED <<productUrl, reviews, isLoading, error, sheetUrl, lastOp, pipelineVars>>

\* await response.json() rejects: the body is not JSON.
JsonRejects(status) ==
  /\ inflight.json[status] > 0
  /\ inflight' = [inflight EXCEPT !.json[status] = @ - 1]
  /\ CatchError(JsonSyntaxMessage)
  /\ lastOp' = Ended("failed")

RECURSIVE Reverse(_)
Reverse(s) == IF s = <<>> THEN <<>> ELSE Reverse(Tail(s)) \o <<Head(s)>>

\* The data in the opposite order, as a sort on a descending key would leave it.
DataReversed(result) == IF result.has_data THEN Reverse(result.data) ELSE <<>>

\* result.data || []
DataOrEmpty(result) == IF result.has_data THEN result.data ELSE <<>>

\* The locator read from a member the response does not have.
SheetUrlMisread(result) == ""

\* result.sheet_url || ''
SheetUrlOrEmpty(result) == OrElse(result.sheet_url, "")

\* The test without its length check.
NoDataMember(result) == ~result.has_data

\* !result.data || result.data.length === 0
NoData(result) == ~result.has_data \/ Len(result.data) = 0

\* The message of the Error thrown for a response that is not ok.
NotOkMessage(status, result) == OrElse(result.detail, HttpErrorMessage(status))

\* The try block after response.json() has resolved with result.
HandleResult(status, result) ==
  IF result.kind = "null"
    THEN /\ CatchError(NullPropertyMessage)
         /\ lastOp' = Handled("failed", status, result)
    ELSE IF ~ResponseOk(status)
      THEN /\ CatchError(NotOkMessage(status, result))
           /\ lastOp' = Handled("failed", status, result)
      ELSE /\ reviews' = DataOrEmpty(result)
           /\ sheetUrl' = SheetUrlOrEmpty(result)
           /\ error' = IF NoData(result) THEN NoReviewsMessage ELSE error
           /\ isLoading' = FALSE
           /\ lastOp' = Handled("resolved", status, result)
           /\ UNCHANGED <<productUrl, pipelineVars>>

\* await response.json() resolves.
JsonResolves(status, result) ==
  /\ inflight.json[status] > 0
  /\ inflight' = [inflight EXCEPT !.json[status] = @ - 1]
  /\ HandleResult(status, result)

PageNext ==
  \/ \E value \in Urls : setProductUrl(value)
  \/ ClickScrape
  \/ SubmitForm
  \/ \E message \in NetworkMessages : FetchRejects(message)
  \/ \E status \in Statuses : FetchResolves(status)
  \/ \E status \in Statuses : JsonRejects(status)
  \/ \E status \in Statuses : \E result \in BodiesFor(status) : JsonResolves(status, result)

\* ==================================================== Part II: the pipeline

\* The product references an invocation may be given: .token is the
\* identifier embedded in the URL, "" when the pattern matches nothing.
References ==
  { [url |-> "https://www.daraz.pk/products/item-i123456789.html", token |-> "123456789"],
    [url |-> "https://www.daraz.pk/", token |-> ""] }

\* The configured cap on pages.
PageCap == 2

\* The configured SheetLocator.
SheetLocator == "https://sheet/A"

\* Raw reviews the upstream may return: one complete, one without a rating,
\* one without text.
RawPool ==
  { [text |-> "good", has_rating |-> TRUE, rating |-> 5],
    [text |-> "bad", has_rating |-> FALSE, rating |-> 0],
    [text |-> "", has_rating |-> TRUE, rating |-> 4] }

RawPages == SeqsUpTo(RawPool, MaxPageSize)

\* Rows left in the spreadsheet by earlier invocations.
PriorRows == <<[product_name |-> "Old", review_text |-> "old", rating |-> 2,
                sentiment_label |-> "Neutral", sentiment_score |-> 0]>>

\* 4.1: the identifier token of the reference.
ResolveId(ref) == ref.token

\* 4.3: a missing rating defaults to 0.
NormalizeOne(raw) ==
  [review_text |-> raw.text, rating |-> IF raw.has_rating THEN raw.rating ELSE 0]

\* 4.3: a record without text is dropped, the rest of the page is kept.
RECURSIVE Normalize(_)
Normalize(entries) ==
  IF entries = <<>> THEN <<>>
  ELSE IF Head(entries).text = "" THEN Normalize(Tail(entries))
  ELSE <<NormalizeOne(Head(entries))>> \o Normalize(Tail(entries))

\* 4.4: the polarity of a text, in hundredths.
PolarityOf(text) ==
  CASE text = "good" -> 70
    [] text = "bad" -> -60
    [] OTHER -> 0

\* 4.4: score > +0.1 is Positive, score < -0.1 is Negative, otherwise Neutral.
LabelOf(score) ==
  IF score > 10 THEN "Positive" ELSE IF score < -10 THEN "Negative" ELSE "Neutral"

ScoreOne(name, r) ==
  [product_name |-> name, review_text |-> r.review_text, rating |-> r.rating,
   sentiment_label |-> LabelOf(PolarityOf(r.review_text)),
   sentiment_score |-> PolarityOf(r.review_text)]

ScoreAll(name, rs) == [i \in 1..Len(rs) |-> ScoreOne(name, rs[i])]

NoOutcome == [kind |-> "none", reviews |-> <<>>, sheet_url |-> "", error |-> ""]

\* 4.7: on Done, the PipelineResult.
PipelineResult(rs) ==
  [kind |-> "result", reviews |-> rs, sheet_url |-> SheetLocator, error |-> ""]

\* 4.7: on Failed, a reported error with no partial result.
ReportedError(name) ==
  [kind |-> "error", reviews |-> <<>>, sheet_url |-> "", error |-> name]

PipelineInit ==
  /\ reference \in References
  /\ stage = "Resolving"
  /\ productId = ""
  /\ productName = ""
  /\ page = 1
  /\ retried = FALSE
  /\ pageCalls = 0
  /\ attempts = 0
  /\ moreSignalled = TRUE
  /\ fetched = <<>>
  /\ scored = <<>>
  /\ sheet = PriorRows
  /\ failedAt = 0
  /\ warnings = {}
  /\ outcome = NoOutcome

\* 4.1, 4.7: Resolving.
Resolve ==
  /\ stage = "Resolving"
  /\ IF ResolveId(reference) = ""
       THEN /\ stage' = "Failed"
            /\ outcome' = ReportedError("InvalidReferenceError")
            /\ UNCHANGED productId
       ELSE /\ stage' = "FetchingMetadata"
            /\ productId' = ResolveId(reference)
            /\ UNCHANGED outcome
  /\ UNCHANGED <<reference, productName, page, retried, pageCalls, attempts,
                 moreSignalled, fetched,
                 scored, sheet, failedAt, warnings, pageVars>>

\* 4.2: the name found by one of the lookup strategies, the sentinel when all
\* of them fail, and the placeholder (with a recorded warning) when the page
\* fetch itself is unavailable.  None of the three stops the pipeline.
MetadataStage(fetch) == "FetchingReviews"

FetchMetadata(fetch) ==
  /\ stage = "FetchingMetadata"
  /\ productName' = IF fetch = "found" THEN "Widget" ELSE "Unknown Product"
  /\ warnings' = IF fetch = "unavailable"
                   THEN warnings \cup {"FetchUnavailableError"} ELSE warnings
  /\ stage' = MetadataStage(fetch)
  /\ UNCHANGED <<reference, productId, page, retried, pageCalls, attempts,
                 moreSignalled, fetched,
                 scored, sheet, failedAt, outcome, pageVars>>

\* 4.3: a page call counts as a new page unless it is the retry of one.
CountCall ==
  /\ attempts' = attempts + 1
  /\ pageCalls' = IF retried THEN pageCalls ELSE pageCalls + 1

\* 4.3: the call for the current page fails.  It is retried once; a second
\* failure is fatal on the first page and ends the retrieval with the pages
\* already retrieved on a later one.
\* A client for which a page that fails twice is fatal on any page.
FailureAlwaysFatal(p) == "Failed"

FailureStage(p) == IF p = 1 THEN "Failed" ELSE "Scoring"

PageFails ==
  /\ stage = "FetchingReviews"
  /\ CountCall
  /\ IF ~retried
       THEN /\ retried' = TRUE
            /\ UNCHANGED <<stage, warnings, outcome>>
       ELSE /\ stage' = FailureStage(page)
            /\ warnings' = IF page = 1 THEN warnings
                           ELSE warnings \cup {"PartialSourceFailure"}
            /\ outcome' = IF page = 1 THEN ReportedError("SourceUnavailableError")
                          ELSE outcome
            /\ UNCHANGED retried
  /\ UNCHANGED <<reference, productId, productName, page, moreSignalled, fetched, scored,
                 sheet, failedAt, pageVars>>

\* The cap compared one page too late.
StopAfterLate(p, entries, hasMore) == ~hasMore \/ p > PageCap \/ entries = <<>>

\* 4.3: the stopping conditions, in priority order: (a) the upstream signals
\* no more pages, (b) the page cap is reached, (c) the page is empty.
StopAfter(p, entries, hasMore) == ~hasMore \/ p >= PageCap \/ entries = <<>>

\* 4.3: the call for the current page returns entries and the signal.
PageReturns(entries, hasMore) ==
  /\ stage = "FetchingReviews"
  /\ CountCall
  /\ fetched' = fetched \o Normalize(entries)
  /\ moreSignalled' = hasMore
  /\ retried' = FALSE
  /\ IF StopAfter(page, entries, hasMore)
       THEN stage' = "Scoring" /\ UNCHANGED page
       ELSE page' = page + 1 /\ UNCHANGED stage
  /\ UNCHANGED <<reference, productId, productName, scored, sheet, failedAt, warnings,
                 outcome, pageVars>>

\* 4.4, 4.5: Scoring.
Score ==
  /\ stage = "Scoring"
  /\ scored' = ScoreAll(productName, fetched)
  /\ stage' = "Persisting"
  /\ UNCHANGED <<reference, productId, productName, page, retried, pageCalls, attempts,
                 moreSignalled, fetched, sheet, failedAt, warnings, outcome, pageVars>>

\* Rows of this batch already appended.
Appended == Len(sheet) - Len(PriorRows)

\* A sink that takes the batch back when an append fails.
SheetRolledBack(rows, k) == PriorRows

\* 4.6: the sheet after the append of row k of the batch has failed: nothing
\* is rolled back.
SheetAfterFailure(rows, k) == rows

\* 4.6, 4.7: what is returned when the batch is over, whether or not an
\* append failed.
ReturnedReviews(rs, k) == rs

\* 4.6: the append of the next row succeeds.
AppendRow ==
  /\ stage = "Persisting"
  /\ Appended < Len(scored)
  /\ sheet' = Append(sheet, scored[Appended + 1])
  /\ UNCHANGED <<reference, stage, productId, productName, page, retried, pageCalls,
                 attempts, moreSignalled, fetched, scored, failedAt, warnings, outcome, pageVars>>

\* 4.6: the append of the next row fails: the batch ends, the failure is
\* recorded and the data is returned all the same.
AppendFails ==
  /\ stage = "Persisting"
  /\ Appended < Len(scored)
  /\ failedAt' = Appended + 1
  /\ sheet' = SheetAfterFailure(sheet, Appended + 1)
  /\ warnings' = warnings \cup {"PersistenceError"}
  /\ stage' = "Done"
  /\ outcome' = PipelineResult(ReturnedReviews(scored, Appended + 1))
  /\ UNCHANGED <<reference, productId, productName, page, retried, pageCalls,
                 attempts, moreSignalled, fetched, scored, pageVars>>

\* 4.7: every row is appended: Done.
Finish ==
  /\ stage = "Persisting"
  /\ Appended = Len(scored)
  /\ stage' = "Done"
  /\ outcome' = PipelineResult(ReturnedReviews(scored, 0))
  /\ UNCHANGED <<reference, productId, productName, page, retried, pageCalls,
                 attempts, moreSignalled, fetched, scored, sheet, failedAt, warnings, pageVars>>

PipelineNext ==
  \/ Resolve
  \/ \E fetch \in {"found", "no_match", "unavailable"} : FetchMetadata(fetch)
  \/ PageFails
  \/ \E entries \in RawPages, hasMore \in BOOLEAN : PageReturns(entries, hasMore)
  \/ Score
  \/ AppendRow
  \/ AppendFails
  \/ Finish

\* ------------------------------------------------------ the specifications

\* The page, with the pipeline's variables at rest.
Init == PageInit /\ PipelineInit /\ reference.token # ""
Next == PageNext
Spec == Init /\ [][Next]_vars

\* The two awaits of handleScrape settling.
FetchSettles ==
  \/ \E message \in NetworkMessages : FetchRejects(message)
  \/ \E status \in Statuses : FetchResolves(status)
JsonSettles ==
  \/ \E status \in Statuses : JsonRejects(status)
  \/ \E status \in Statuses : \E result \in BodiesFor(status) : JsonResolves(status, result)

\* One invocation of the pipeline, with the page at rest.  Every call of the
\* pipeline is time-boxed, so a step that can be taken is taken.
PipelineStart == PageInit /\ PipelineInit
SpecPipeline == PipelineStart /\ [][PipelineNext]_vars /\ WF_vars(PipelineNext)

\* ================================================================== claims

\* C1: sentimentCounts over an empty review sequence is {Positive: 0,
\* Negative: 0, Neutral: 0}, and over any sequence of reviews (each labelled
\* Positive, Negative or Neutral) the three counts sum to its length.
C1_CountsSumToLength ==
  /\ reviews = <<>> =>
       sentimentCounts = [Positive |-> 0, Negative |-> 0, Neutral |-> 0]
  /\ (\A i \in 1..Len(reviews) : reviews[i].sentiment_label \in Labels) =>
       sentimentCounts["Positive"] + sentimentCounts["Negative"]
         + sentimentCounts["Neutral"] = Len(reviews)

C1_Witness ==
  /\ Len(reviews) >= 2
  /\ \A i \in 1..Len(reviews) : reviews[i].sentiment_label = "Positive"
  /\ sentimentCounts["Positive"] = Len(reviews)

\* C2: after a scrape has failed (a response that is not ok, or a rejected
\* fetch or json()), an error is set, reviews is empty and no sheetUrl is
\* held, whatever requests were submitted before it, overlapping ones included.
C2_FailureLeavesNoResult ==
  lastOp.op = "failed" => error # NoError /\ reviews = <<>> /\ sheetUrl = ""

\* C6: after a successful scrape, reviews is the response's data in the
\* response's order, and the table shows one row per element, in that order,
\* with that element's fields.
C6_RetrievalOrderKept ==
  (lastOp.status = 200 /\ lastOp.body.kind = "object" /\ lastOp.body.has_data) =>
    /\ lastOp.op = "resolved"
    /\ reviews = lastOp.body.data
    /\ Len(reviews) > 0 =>
         /\ TableShown
         /\ Len(TableRows) = Len(lastOp.body.data)
         /\ \A i \in 1..Len(lastOp.body.data) :
              /\ TableRows[i].product_name = lastOp.body.data[i].product_name
              /\ TableRows[i].review_text = lastOp.body.data[i].review_text
              /\ TableRows[i].rating = lastOp.body.data[i].rating
              /\ TableRows[i].sentiment_label = lastOp.body.data[i].sentiment_label
              /\ TableRows[i].score_cell = ScoreCell(lastOp.body.data[i])

C6_Witness ==
  /\ lastOp.op = "resolved"
  /\ Len(reviews) >= 2
  /\ reviews[1].sentiment_score < reviews[2].sentiment_score
  /\ reviews[1].review_text = "broke"
  /\ TableRows[1].score_cell = [shown |-> TRUE, thousandths |-> -701]

\* What the user can do on the page.
UserAction ==
  \/ \E value \in Urls : setProductUrl(value)
  \/ ClickScrape
  \/ SubmitForm

IsPermutation(s, t) ==
  /\ Len(s) = Len(t)
  /\ \E f \in [1..Len(s) -> 1..Len(s)] :
       /\ \A i, j \in 1..Len(s) : i # j => f[i] # f[j]
       /\ \A i \in 1..Len(s) : s[i] = t[f[i]]

\* A step of the user's after which the same rows are shown in another order.
UserReorders ==
  /\ UserAction
  /\ TableShown'
  /\ TableRows' # TableRows
  /\ IsPermutation(TableRows', TableRows)

\* C7: the table of reviews is sortable: whenever rows that differ are shown,
\* the user has an action that reorders them.
C7_TableSortable ==
  (TableShown /\ \E i, j \in 1..Len(TableRows) : TableRows[i] # TableRows[j]) =>
    ENABLED UserReorders

\* C8: once a request has completed with an ok response carrying a sheet_url,
\* the try block has run to its end, the page is no longer loading and it
\* shows a sheet link to that sheet_url.
C8_SheetLinkShown ==
  (lastOp.status = 200 /\ lastOp.body.kind = "object"
     /\ lastOp.body.sheet_url \notin {Undefined, ""}) =>
    /\ lastOp.op = "resolved"
    /\ ~isLoading
    /\ SheetLinkShown
    /\ SheetLinkHref = lastOp.body.sheet_url

C8_Witness ==
  /\ lastOp.op = "resolved"
  /\ lastOp.body.sheet_url = "https://sheet/B"
  /\ SheetLinkShown
  /\ InFlightCount > 0

AllWhitespace(url) == \A i \in 1..Len(url) : url[i] = " "

\* C9: a submit with an empty or whitespace-only URL sends no request, sets
\* error to "Please enter a product URL." and leaves reviews, sheetUrl and
\* isLoading as they were.
C9_BlankUrlSendsNothing ==
  [][(handleScrape /\ AllWhitespace(productUrl)) =>
       /\ error' = PleaseEnterMessage
       /\ UNCHANGED <<reviews, sheetUrl, isLoading, inflight>>]_vars

C9_Witness ==
  /\ lastOp.op = "blank"
  /\ productUrl = <<" ">>
  /\ error = PleaseEnterMessage
  /\ reviews # <<>>
  /\ sheetUrl # ""

\* C10: an ok response whose data is missing or empty does not take the
\* catch path; it is a success with a note: reviews is empty, error is the
\* "No reviews were returned" note and sheetUrl is the response's sheet_url
\* ('' without one).
C10_EmptyDataIsAdvisory ==
  (lastOp.status = 200 /\ lastOp.body.kind = "object"
     /\ (~lastOp.body.has_data \/ lastOp.body.data = <<>>)) =>
    /\ lastOp.op = "resolved"
    /\ ~isLoading
    /\ reviews = <<>>
    /\ error = NoReviewsMessage
    /\ sheetUrl = IF lastOp.body.sheet_url \in {Undefined, ""}
                    THEN "" ELSE lastOp.body.sheet_url

C10_Witness ==
  /\ lastOp.op = "resolved"
  /\ lastOp.body.has_data
  /\ lastOp.body.data = <<>>
  /\ error = NoReviewsMessage
  /\ sheetUrl = "https://sheet/A"

\* C3: pagination ends within the page cap whatever the upstream does: no
\* more than PageCap pages are requested (each called at most twice, the
\* retry included), and the retrieval loop, once entered, is left.
C3_PaginationWithinCap ==
  /\ [](pageCalls <= PageCap /\ attempts <= 2 * PageCap)
  /\ (stage = "FetchingReviews") ~> (stage # "FetchingReviews")

\* The upstream filled every page and signalled more pages to the end.
C3_Witness ==
  /\ stage = "Scoring"
  /\ moreSignalled
  /\ pageCalls = PageCap
  /\ Len(fetched) = PageCap * MaxPageSize

\* The first page has been retrieved.
PastFirstPage ==
  \/ stage = "FetchingReviews" /\ page > 1
  \/ stage \in {"Scoring", "Persisting"}

\* C4: Failed is entered only from Resolving, when the reference holds no
\* identifier, or from Fetching-Reviews, when the first page fails again
\* after its retry; once the first page is retrieved the invocation reaches
\* Done, which returns a PipelineResult, whatever else fails.
C4_FailedOnlyFromTwoStates ==
  /\ [][stage' = "Failed" =>
          \/ stage = "Failed"
          \/ stage = "Resolving" /\ ResolveId(reference) = ""
          \/ stage = "FetchingReviews" /\ page = 1 /\ retried]_vars
  /\ [](stage = "Done" => outcome.kind = "result")
  /\ [](PastFirstPage => stage # "Failed")
  /\ PastFirstPage ~> (stage = "Done")

\* Done after the metadata fetch, a later page and an append have all failed.
C4_Witness ==
  /\ stage = "Done"
  /\ outcome.kind = "result"
  /\ warnings = {"FetchUnavailableError", "PartialSourceFailure", "PersistenceError"}

\* C5: when the append of row k of N fails, rows 1..k-1 stay in the
\* spreadsheet after the rows that were there before, and the returned data
\* set holds all N reviews.
C5_PartialPersistenceKeepsData ==
  (stage = "Done" /\ failedAt > 0) =>
    /\ sheet = PriorRows \o SubSeq(scored, 1, failedAt - 1)
    /\ outcome.kind = "result"
    /\ outcome.reviews = scored
    /\ Len(outcome.reviews) = Len(fetched)

C5_Witness ==
  /\ stage = "Done"
  /\ failedAt = 2
  /\ Len(scored) >= 3
  /\ Len(sheet) = Len(PriorRows) + 1
  /\ Len(outcome.reviews) = Len(scored)

\* C11: in every reachable state isLoading is true exactly when a request
\* started by handleScrape has not yet completed; a completion does not set
\* it to false while another request is still pending.
C11_LoadingIffPending == isLoading <=> InFlightCount > 0

\* C12: every scrape that passes the blank check leaves isLoading false once
\* its request has settled, on each path (an ok response, a response that is
\* not ok, a rejected fetch, a rejected or null json()): every step in which
\* a request completes ends with isLoading false, and while the page is
\* loading an await is pending whose settling is such a step or leads to one.
C12_LoadingEnds ==
  /\ [][InFlightCount' < InFlightCount => ~isLoading']_vars
  /\ [](isLoading => ENABLED (FetchSettles \/ JsonSettles))

\* The body could not be decoded, and the page is no longer loading.
C12_Witness ==
  /\ lastOp.op = "failed"
  /\ error = JsonSyntaxMessage
  /\ ~isLoading
  /\ InFlightCount = 0

====
